---- MODULE Spec2Model ----
(***************************************************************************)
(* Model of run_matching (src/assignment2/match.py): a random half of the  *)
(* users propose, the other half receive, both sides get preference lists  *)
(* built by create_preferences, and the Gale-Shapley loop runs over the    *)
(* list of free proposers.                                                 *)
(*                                                                         *)
(* The state is the set of local variables of run_matching.  Init is the   *)
(* state on reaching the while loop (line 70); each action is one          *)
(* iteration of the loop, or the return (line 91-92).  An uncaught Python  *)
(* exception ends the run in pc = "error".                                 *)
(***************************************************************************)
EXTENDS Integers, Sequences, FiniteSets

VARIABLES n, scores, gender_id, gender_pref,
          proposers_indices, receivers_indices,
          proposer_preferences, receiver_preferences,
          free_proposers, proposals, receivers, matches,
          pc, iters

vars == <<n, scores, gender_id, gender_pref,
          proposers_indices, receivers_indices,
          proposer_preferences, receiver_preferences,
          free_proposers, proposals, receivers, matches,
          pc, iters>>

(* ---------------------------- bounds ---------------------------------- *)

\* Largest population size explored.
MaxN == 4

\* Scores are drawn from 0..MaxScore.
MaxScore == 1

\* The attribute lists are up to MaxExtra entries longer than the matrix.
MaxExtra == 1

(* ---------------------------- labels ---------------------------------- *)

\* The labels the docstring (lines 9-10) documents.
KnownIds == {"Male", "Female", "Non-binary"}

KnownPrefs == {"Men", "Women", "Bisexual"}

\* Inputs also include one label outside each documented set: the code
\* accepts any value in the two lists.
IdLabels == KnownIds \cup {"Other"}

PrefLabels == KnownPrefs \cup {"Other"}

\* Python's None (line 65).
None == -1

\* Result of a list lookup that Python answers with ValueError.
NotFound == -1

(* ---------------------------- helpers --------------------------------- *)

Range(s) == {s[k] : k \in 1..Len(s)}

\* x in list
On(s, x) == \E k \in 1..Len(s) : s[k] = x

\* list.index(x): 0-based position of the first occurrence.
IndexOf(s, x) ==
    IF On(s, x)
    THEN (CHOOSE k \in 1..Len(s) : s[k] = x /\ \A m \in 1..(k-1) : s[m] # x) - 1
    ELSE NotFound

\* random.sample(range(n), half): every sequence of half distinct indices.
SamplesMutant(nn) ==
    {s \in [1..((nn + 1) \div 2) -> 0..(nn-1)] :
        \A a, b \in 1..((nn + 1) \div 2) : a # b => s[a] # s[b]}

Samples(nn) ==
    {s \in [1..(nn \div 2) -> 0..(nn-1)] :
        \A a, b \in 1..(nn \div 2) : a # b => s[a] # s[b]}

\* Lines 31-34: the indices not sampled, in ascending order.
RemainingMutant(i, nn, prop) == [k \in 1..(nn - i) |-> i + k - 1]

RECURSIVE Remaining(_, _, _)
Remaining(i, nn, prop) ==
    IF i >= nn THEN <<>>
    ELSE (IF On(prop, i) THEN <<>> ELSE <<i>>) \o Remaining(i + 1, nn, prop)

(* ----------------------- create_preferences --------------------------- *)

\* The compatibility test of lines 44-46 and 49-51: does a user with
\* preference pref admit a user with identity id?
AdmitsMutant(pref, id) ==
    \/ (pref = "Men" /\ id = "Female")
    \/ (pref = "Women" /\ id = "Male")
    \/ pref = "Bisexual"

Admits(pref, id) ==
    \/ (pref = "Men" /\ id = "Male")
    \/ (pref = "Women" /\ id = "Female")
    \/ pref = "Bisexual"

\* Lines 43-52: is j kept on i's list?
Keeps(sc, gid, gpref, i, j, is_proposer) ==
    IF is_proposer THEN Admits(gpref[i], gid[j])
    ELSE Admits(gpref[j], gid[i])

\* Lines 47 and 52: the (score, index) pair appended for candidate j of
\* subject i.  The receivers' branch appends the subject's own index i.
Entry(sc, i, j, is_proposer) ==
    IF is_proposer THEN <<sc[i][j], j>> ELSE <<sc[j][i], i>>

\* Lines 41-52: the (score, index) entries of i's list, in the order the
\* opposite side is iterated.
RECURSIVE Entries(_, _, _, _, _, _)
Entries(sc, gid, gpref, i, opp, is_proposer) ==
    IF opp = <<>> THEN <<>>
    ELSE LET j == Head(opp)
         IN  (IF Keeps(sc, gid, gpref, i, j, is_proposer)
              THEN <<Entry(sc, i, j, is_proposer)>>
              ELSE <<>>)
             \o Entries(sc, gid, gpref, i, Tail(opp), is_proposer)

\* Put x into a list already sorted by descending key, after every entry
\* whose key is >= x's: entries with equal keys keep their arrival order.
RECURSIVE InsertDesc(_, _)
InsertDesc(sorted, x) ==
    IF sorted = <<>> THEN <<x>>
    ELSE IF Head(sorted)[1] >= x[1]
         THEN <<Head(sorted)>> \o InsertDesc(Tail(sorted), x)
         ELSE <<x>> \o sorted

\* Line 54: list.sort(reverse=True, key=score), a stable sort.
RECURSIVE SortDesc(_)
SortDesc(s) ==
    IF s = <<>> THEN <<>>
    ELSE InsertDesc(SortDesc(SubSeq(s, 1, Len(s) - 1)), s[Len(s)])

\* Line 55: keep the indices only.
Indices(s) == [k \in 1..Len(s) |-> s[k][2]]

\* Lines 37-56.
create_preferences(sc, gid, gpref, indices, opp, is_proposer) ==
    [i \in Range(indices) |->
        Indices(SortDesc(Entries(sc, gid, gpref, i, opp, is_proposer)))]

(* ------------------------------ Init ---------------------------------- *)

\* The state on reaching line 70, for a score matrix of n rows, gender_id
\* of n + extra_id entries and gender_pref of n + extra_pref entries.  The
\* code reads scores[i][j] only for a proposer i and a receiver j,
\* gender_pref only of proposers and gender_id only of receivers; the
\* entries it never reads are fixed.
Setup(extra_id, extra_pref) ==
    /\ n \in 0..MaxN
    /\ proposers_indices \in Samples(n)
    /\ receivers_indices = Remaining(0, n, proposers_indices)
    /\ \E cross \in [Range(proposers_indices) \X Range(receivers_indices)
                        -> 0..MaxScore] :
          scores = [i \in 0..(n-1) |-> [j \in 0..(n-1) |->
                      IF On(proposers_indices, i) /\ On(receivers_indices, j)
                      THEN cross[<<i, j>>] ELSE 0]]
    /\ \E gp \in [Range(proposers_indices) -> PrefLabels] :
          gender_pref = [i \in 0..(n + extra_pref - 1) |->
                      IF On(proposers_indices, i) THEN gp[i] ELSE "Bisexual"]
    /\ \E gi \in [Range(receivers_indices) -> IdLabels] :
          gender_id = [i \in 0..(n + extra_id - 1) |->
                      IF On(receivers_indices, i) THEN gi[i] ELSE "Non-binary"]
    /\ proposer_preferences =
          create_preferences(scores, gender_id, gender_pref,
                             proposers_indices, receivers_indices, TRUE)
    /\ receiver_preferences =
          create_preferences(scores, gender_id, gender_pref,
                             receivers_indices, proposers_indices, FALSE)
    /\ free_proposers = proposers_indices
    /\ proposals = [p \in Range(proposers_indices) |-> 0]
    /\ receivers = [r \in Range(receivers_indices) |-> None]
    /\ matches = <<>>
    /\ pc = "loop"
    /\ iters = 0

\* The three inputs have the same length (the documented precondition).
Init == Setup(0, 0)

\* The attribute lists may be longer than the score matrix.
InitShape == \E extra_id, extra_pref \in 0..MaxExtra :
                Setup(extra_id, extra_pref)

(* --------------------------- the loop --------------------------------- *)

\* Line 71: what pop(0) leaves of the free list.
PopRestMutant(fp) == fp

PopRest(fp) == Tail(fp)

\* Line 76: receivers[receiver] is None.
IsFreeMutant(recv, receiver) == TRUE

IsFree(recv, receiver) == recv[receiver] = None

\* Line 80: does the receiver whose list is rlist prefer proposer to
\* current_match?
Prefers(rlist, proposer, current_match) ==
    IndexOf(rlist, proposer) < IndexOf(rlist, current_match)

\* Lines 83 and 86: who goes back to the end of the free list.
Requeue(fp, proposer, current_match, prefers) ==
    IF prefers THEN Append(fp, current_match) ELSE Append(fp, proposer)

\* Line 88: the proposer's cursor moves on by one.
AdvanceMutant(props, proposer) == props

Advance(props, proposer) == [props EXCEPT ![proposer] = @ + 1]

\* Line 61: the free list is a copy, list(proposers_indices), so an
\* iteration that leaves fp in the free list leaves the sample as it was.
SampleAfterMutant(sample, fp) == fp

SampleAfter(sample, fp) == sample

\* Line 73 raises IndexError when the cursor is past the end of the list.
CursorPastEnd(pp, props, proposer) ==
    props[proposer] >= Len(pp[proposer])

\* Line 80 raises ValueError when either proposer is not on the list.
LookupFailsMutant(rlist, proposer, current_match) == FALSE

LookupFails(rlist, proposer, current_match) ==
    ~On(rlist, proposer) \/ ~On(rlist, current_match)

\* Lines 71-88, one iteration of the while loop, on the loop's variables
\* st = [free_proposers, proposals, receivers, pc, iters]; pp and rp are the
\* two preference mappings.
LoopBody(pp, rp, st) ==
    LET proposer == Head(st.free_proposers)
        rest     == PopRest(st.free_proposers)
    IN  IF CursorPastEnd(pp, st.proposals, proposer)
        THEN [st EXCEPT !.free_proposers = rest, !.pc = "error",
                        !.iters = @ + 1]
        ELSE
        LET receiver == pp[proposer][st.proposals[proposer] + 1]
            advanced == Advance(st.proposals, proposer)
        IN  IF IsFree(st.receivers, receiver)
            THEN [st EXCEPT !.free_proposers = rest,
                            !.receivers = [@ EXCEPT ![receiver] = proposer],
                            !.proposals = advanced,
                            !.iters = @ + 1]
            ELSE
            LET current_match == st.receivers[receiver]
            IN  IF LookupFails(rp[receiver], proposer, current_match)
                THEN [st EXCEPT !.free_proposers = rest, !.pc = "error",
                                !.iters = @ + 1]
                ELSE
                LET prefers == Prefers(rp[receiver], proposer, current_match)
                IN  [st EXCEPT
                       !.free_proposers =
                           Requeue(rest, proposer, current_match, prefers),
                       !.receivers =
                           IF prefers THEN [@ EXCEPT ![receiver] = proposer]
                           ELSE @,
                       !.proposals = advanced,
                       !.iters = @ + 1]

\* Line 91: the held receivers, in the order of the receivers dictionary.
RECURSIVE Pairs(_, _)
Pairs(rs, recv) ==
    IF rs = <<>> THEN <<>>
    ELSE (IF recv[Head(rs)] # None
          THEN << <<recv[Head(rs)], Head(rs)>> >> ELSE <<>>)
         \o Pairs(Tail(rs), recv)

LoopState ==
    [free_proposers |-> free_proposers, proposals |-> proposals,
     receivers |-> receivers, pc |-> pc, iters |-> iters]

Inputs == <<n, scores, gender_id, gender_pref,
            receivers_indices, proposer_preferences, receiver_preferences>>

Iterate ==
    LET st == LoopBody(proposer_preferences, receiver_preferences, LoopState)
    IN  /\ free_proposers' = st.free_proposers
        /\ proposals' = st.proposals
        /\ receivers' = st.receivers
        /\ pc' = st.pc
        /\ iters' = st.iters
        /\ proposers_indices' =
              SampleAfter(proposers_indices, st.free_proposers)
        /\ UNCHANGED <<Inputs, matches>>

Popped == Head(free_proposers)

Target == proposer_preferences[Popped][proposals[Popped] + 1]

\* Lines 71-73 when the popped proposer's cursor is past the end of its
\* list: the subscript raises IndexError and run_matching is left.
Exhausted ==
    /\ pc = "loop" /\ free_proposers # <<>>
    /\ CursorPastEnd(proposer_preferences, proposals, Popped)
    /\ Iterate

\* Lines 71-77, 88: the receiver proposed to holds nobody.
Accept ==
    /\ pc = "loop" /\ free_proposers # <<>>
    /\ ~CursorPastEnd(proposer_preferences, proposals, Popped)
    /\ IsFree(receivers, Target)
    /\ Iterate

\* Lines 71-73, 78-88: the receiver proposed to holds somebody.
Challenge ==
    /\ pc = "loop" /\ free_proposers # <<>>
    /\ ~CursorPastEnd(proposer_preferences, proposals, Popped)
    /\ ~IsFree(receivers, Target)
    /\ Iterate

\* Lines 70, 91-92: nobody is free, the pairs are returned.
Return ==
    /\ pc = "loop" /\ free_proposers = <<>>
    /\ matches' = Pairs(receivers_indices, receivers)
    /\ pc' = "done"
    /\ UNCHANGED <<Inputs, proposers_indices,
                   free_proposers, proposals, receivers, iters>>

Next == Exhausted \/ Accept \/ Challenge \/ Return

Spec == Init /\ [][Next]_vars

\* The interpreter runs the loop to its end.
FairSpec == Spec /\ WF_vars(Next)

\* run_matching called with attribute lists of any length >= len(scores).
SpecShape == InitShape /\ [][Next]_vars

(* ----------------------- run_matching as a function ------------------- *)

\* Lines 70-88 run to the end of the loop or to the exception.
RECURSIVE RunLoop(_, _, _)
RunLoop(pp, rp, st) ==
    IF st.pc # "loop" THEN st
    ELSE IF st.free_proposers = <<>> THEN [st EXCEPT !.pc = "done"]
    ELSE RunLoop(pp, rp, LoopBody(pp, rp, st))

\* Lines 31-92 for the sample the sampler returned: how the call ends and
\* the list it returns.
Outcome(sc, gid, gpref, nn, sample) ==
    LET rs  == Remaining(0, nn, sample)
        pp  == create_preferences(sc, gid, gpref, sample, rs, TRUE)
        rp  == create_preferences(sc, gid, gpref, rs, sample, FALSE)
        fin == RunLoop(pp, rp,
                  [free_proposers |-> sample,
                   proposals |-> [p \in Range(sample) |-> 0],
                   receivers |-> [r \in Range(rs) |-> None],
                   pc |-> "loop", iters |-> 0])
    IN  [pc |-> fin.pc,
         matches |-> IF fin.pc = "done" THEN Pairs(rs, fin.receivers)
                     ELSE <<>>]

(* ----------------------------- claims --------------------------------- *)

Proposers == Range(proposers_indices)

Receivers == Range(receivers_indices)

\* Every label of the input is one the docstring documents.
LabelsKnown ==
    \A i \in 0..(n-1) :
        gender_id[i] \in KnownIds /\ gender_pref[i] \in KnownPrefs

\* p is paired with r in the returned list.
Returned(p, r) == \E k \in 1..Len(matches) : matches[k] = <<p, r>>

\* p would rather have r than what the returned list gives it: r is on
\* p's list, and p is unmatched or its partner comes after r.
Covets(p, r) ==
    /\ On(proposer_preferences[p], r)
    /\ \A r2 \in Receivers :
          Returned(p, r2) =>
             IndexOf(proposer_preferences[p], r)
               < IndexOf(proposer_preferences[p], r2)

\* r would rather hold p2 than p: r's list names p2 before p, or the score
\* r's entries are sorted by (lines 52-54) is higher for p2 than for p.
WouldSwap(r, p2, p) ==
    \/ /\ On(receiver_preferences[r], p2)
       /\ On(receiver_preferences[r], p)
       /\ IndexOf(receiver_preferences[r], p2)
            < IndexOf(receiver_preferences[r], p)
    \/ scores[p2][r] > scores[p][r]

\* C1 (stability): when run_matching has returned, no returned pair (p, r)
\* is blocked: there is no other proposer p2 that has r on its list before
\* its own partner (or is unmatched with r on its list) and that r would
\* rather hold than p, by position on r's list or by r's ranking score.
C1_Stability ==
    pc = "done" =>
      \A p \in Proposers, r \in Receivers :
        Returned(p, r) =>
          ~ \E p2 \in Proposers :
                p2 # p /\ Covets(p2, r) /\ WouldSwap(r, p2, p)

\* A returned matching in which a receiver r, paired with p, scores another
\* proposer p2 higher and is on p2's list, behind p2's partner.
C1_Witness ==
    /\ pc = "done"
    /\ \E p, p2 \in Proposers, r, r2 \in Receivers :
          /\ p2 # p /\ Returned(p, r) /\ Returned(p2, r2)
          /\ On(proposer_preferences[p2], r)
          /\ scores[p2][r] > scores[p][r]

\* C2 (no double booking): in every state no proposer is held by two
\* receivers, and in the returned list no index occurs twice as proposer
\* and none twice as receiver.
C2_NoDoubleBooking ==
    /\ \A r1, r2 \in Receivers :
          (receivers[r1] # None /\ receivers[r1] = receivers[r2]) => r1 = r2
    /\ \A a, b \in 1..Len(matches) :
          (matches[a][1] = matches[b][1] \/ matches[a][2] = matches[b][2])
             => a = b

\* Two pairs returned, both proposers having had a second receiver on their
\* lists to go on to.
C2_Witness ==
    /\ pc = "done" /\ Len(matches) = 2
    /\ \A p \in Proposers : Len(proposer_preferences[p]) = 2

\* C3 (compatibility respected): every returned pair (p, r) has p's
\* preference "Men" and r's identity "Male", or p's preference "Women" and
\* r's identity "Female", or p's preference "Bisexual".
C3_Compatible ==
    pc = "done" =>
      \A k \in 1..Len(matches) :
         LET p == matches[k][1]
             r == matches[k][2]
         IN  \/ (gender_pref[p] = "Men" /\ gender_id[r] = "Male")
             \/ (gender_pref[p] = "Women" /\ gender_id[r] = "Female")
             \/ gender_pref[p] = "Bisexual"

\* A returned pair whose proposer is selective, with a receiver present
\* that it does not admit.
C3_Witness ==
    /\ pc = "done"
    /\ \E k \in 1..Len(matches) :
          /\ gender_pref[matches[k][1]] = "Men"
          /\ gender_id[matches[k][2]] = "Male"
          /\ \E r \in Receivers : gender_id[r] = "Female"

\* C4 (exhaustion handled): an iteration that pops a proposer whose cursor
\* is past the end of its list drops that proposer, raises nothing and
\* leaves the loop running with the cursors and the holders as they were.
C4_ExhaustedDiscarded ==
    [][(/\ pc = "loop" /\ free_proposers # <<>>
        /\ CursorPastEnd(proposer_preferences, proposals, Popped))
       => (/\ pc' = "loop"
           /\ free_proposers' = Tail(free_proposers)
           /\ UNCHANGED <<proposals, receivers>>)]_vars

\* C5 (termination): for every input with documented labels the run
\* reaches the return.
C5_Terminates == LabelsKnown => <>(pc = "done")

\* Longest proposer list.
MaxListLen ==
    IF Proposers = {} THEN 0
    ELSE CHOOSE m \in 0..n :
            /\ \A p \in Proposers : Len(proposer_preferences[p]) <= m
            /\ \E p \in Proposers : Len(proposer_preferences[p]) = m

\* C6 (termination bound): the iterations executed never exceed the number
\* of proposers times the longest proposer list.
C6_IterationBound == iters <= Cardinality(Proposers) * MaxListLen

\* C7 (determinism for a fixed partition): whatever order the sampler lists
\* the same proposers in, run_matching ends the same way, and when it
\* returns it returns the same set of pairs.
C7_Deterministic ==
    pc \in {"done", "error"} =>
      \A s2 \in Samples(n) :
         Range(s2) = Proposers =>
            LET o == Outcome(scores, gender_id, gender_pref, n, s2)
            IN  o.pc = pc /\ Range(o.matches) = Range(matches)

\* Two pairs returned from a sample that lists the larger index first.
C7_Witness ==
    /\ pc = "done" /\ Len(matches) = 2
    /\ proposers_indices[1] > proposers_indices[2]

\* The list is in descending order of key, equal keys in ascending order of
\* index.
DescThenAscending(list, key(_)) ==
    \A a, b \in 1..Len(list) :
        a < b => /\ key(list[a]) >= key(list[b])
                 /\ key(list[a]) = key(list[b]) => list[a] < list[b]

\* C8 (ordering of the lists): every proposer's and every receiver's list
\* is in descending order of score, candidates of equal score in ascending
\* order of index.
C8_TiesAscending ==
    /\ \A p \in Proposers :
          LET key(r) == scores[p][r]
          IN  DescThenAscending(proposer_preferences[p], key)
    /\ \A r \in Receivers :
          LET key(p) == scores[p][r]
          IN  DescThenAscending(receiver_preferences[r], key)

\* C9 (membership and direction): p's list holds exactly the receivers whose
\* identity p's preference admits, r's list exactly the proposers whose
\* preference admits r's identity, both in descending order of scores[p][r]
\* and without repetition.
C9_Membership ==
    LET admits(p, r) ==
            \/ (gender_pref[p] = "Men" /\ gender_id[r] = "Male")
            \/ (gender_pref[p] = "Women" /\ gender_id[r] = "Female")
            \/ gender_pref[p] = "Bisexual"
    IN  /\ \A p \in Proposers :
              LET list == proposer_preferences[p]
              IN  /\ Range(list) = {r \in Receivers : admits(p, r)}
                  /\ Len(list) = Cardinality(Range(list))
                  /\ \A a, b \in 1..Len(list) :
                        a < b => scores[p][list[a]] >= scores[p][list[b]]
        /\ \A r \in Receivers :
              LET list == receiver_preferences[r]
              IN  /\ Range(list) = {p \in Proposers : admits(p, r)}
                  /\ Len(list) = Cardinality(Range(list))
                  /\ \A a, b \in 1..Len(list) :
                        a < b => scores[list[a]][r] >= scores[list[b]][r]

\* C10 (unknown label fails fast): run_matching returns a list only when
\* every label is a documented one.
C10_UnknownLabelFails == pc = "done" => LabelsKnown

\* C11 (shape mismatch fails fast): run_matching returns a list only when
\* gender_id and gender_pref have as many entries as scores has rows.
C11_ShapeMismatchFails ==
    pc = "done" =>
       /\ DOMAIN gender_id = 0..(n-1)
       /\ DOMAIN gender_pref = 0..(n-1)

\* C12 (degenerate population): with fewer than two users, or a side that
\* is empty, the loop has nothing to serve, no exception is raised and the
\* list returned is empty.
C12_DegenerateEmpty ==
    (n < 2 \/ Proposers = {} \/ Receivers = {}) =>
       /\ pc # "error"
       /\ pc = "loop" => free_proposers = <<>>
       /\ matches = <<>>

\* The call has returned for a single user.
C12_Witness == n = 1 /\ pc = "done" /\ Receivers = {0}

\* C13 (side partition): there are n \div 2 proposers, all distinct; the
\* receivers are exactly the other indices of 0..n-1, each once; both sides
\* are non-empty when n >= 2 and the receivers are the larger side when n is
\* odd; and no step changes either side.
C13_SidePartition ==
    /\ [](/\ Len(proposers_indices) = n \div 2
          /\ Cardinality(Proposers) = n \div 2
          /\ Receivers = (0..(n-1)) \ Proposers
          /\ Cardinality(Receivers) = Len(receivers_indices)
          /\ n >= 2 => (Proposers # {} /\ Receivers # {})
          /\ n % 2 = 1 => Cardinality(Receivers) = Cardinality(Proposers) + 1)
    /\ [][UNCHANGED <<proposers_indices, receivers_indices>>]_vars

\* An odd population split after the loop has run.
C13_Witness ==
    /\ n = 3 /\ pc = "done" /\ Len(matches) = 1
    /\ Cardinality(Receivers) = 2

\* Every user is "Bisexual".
AllBisexual == \A i \in DOMAIN gender_pref : gender_pref[i] = "Bisexual"

\* C14 (full matching under universal compatibility): when every preference
\* is "Bisexual" no exception is raised, and the list returned pairs every
\* proposer exactly once.
C14_AllBisexualMatched ==
    AllBisexual =>
       /\ pc # "error"
       /\ pc = "done" =>
             \A p \in Proposers :
                Cardinality({k \in 1..Len(matches) : matches[k][1] = p}) = 1

\* C15 (receivers never become unmatched): a step leaves every receiver
\* that holds a proposer holding one, and when the holder changes the new
\* holder is on the receiver's list before the old one.
C15_HolderOnlyImproves ==
    [][\A r \in Receivers :
          receivers[r] # None =>
             /\ receivers'[r] # None
             /\ receivers'[r] # receivers[r] =>
                   /\ On(receiver_preferences[r], receivers'[r])
                   /\ On(receiver_preferences[r], receivers[r])
                   /\ IndexOf(receiver_preferences[r], receivers'[r])
                        < IndexOf(receiver_preferences[r], receivers[r])]_vars

\* A receiver that holds a proposer has been proposed to by a second
\* proposer, which is neither free nor held now: the iteration that popped
\* it has run.
C15_Witness ==
    \E r \in Receivers, p \in Proposers :
        /\ receivers[r] # None /\ receivers[r] # p
        /\ ~On(free_proposers, p)
        /\ \A r2 \in Receivers : receivers[r2] # p
        /\ proposals[p] < Len(proposer_preferences[p])
        /\ proposer_preferences[p][proposals[p] + 1] = r

\* C16 (frame): no step changes the score matrix, the attributes, the two
\* sides or the two preference mappings.
C16_Frame ==
    [][UNCHANGED <<n, scores, gender_id, gender_pref, proposers_indices,
                   receivers_indices, proposer_preferences,
                   receiver_preferences>>]_vars

\* Two iterations have run and emptied the free list.
C16_Witness ==
    pc = "loop" /\ iters = 2 /\ free_proposers = <<>>

Count(list, x) == Cardinality({k \in 1..Len(list) : list[k] = x})

\* C18 (free/held partition): at the top of every iteration each proposer
\* is once in the free list and held by nobody, or held by one receiver and
\* not in the free list.
C18_FreeOrHeld ==
    pc = "loop" =>
       \A p \in Proposers :
          Count(free_proposers, p)
            + Cardinality({r \in Receivers : receivers[r] = p}) = 1

\* One proposer is held while another is still free.
C18_Witness ==
    /\ pc = "loop"
    /\ \E p, p2 \in Proposers, r \in Receivers :
          receivers[r] = p /\ On(free_proposers, p2)

\* C19 (rank lookup never fails): when the proposer popped next proposes to
\* a receiver that holds somebody, the proposer and the holder are both on
\* that receiver's list.
C19_LookupDefined ==
    (/\ pc = "loop" /\ free_proposers # <<>>
     /\ ~CursorPastEnd(proposer_preferences, proposals, Popped)
     /\ ~IsFree(receivers, Target))
    => /\ On(receiver_preferences[Target], Popped)
       /\ On(receiver_preferences[Target], receivers[Target])

====
